---- MODULE Spec2Model ----
(***************************************************************************)
(* Model of the MyPage plugin (tracext/wiki/mypage.py): the per-user       *)
(* journal entry point MyPageModule.process_request, the page listing      *)
(* get_all_mypages, the template token expansion and the navigation macro  *)
(* MyPageNavMacro.expand_macro.                                            *)
(*                                                                         *)
(* Python strings are sequences of one-character strings, compared by      *)
(* character code the way Python compares them.  An optional value         *)
(* (None or a value) is a sequence of length 0 or 1.                       *)
(***************************************************************************)
EXTENDS Integers, Sequences, FiniteSets, TLC

VARIABLES
    prefix,     \* the [mypage] prefix option
    authname,   \* the user of the request
    today,      \* today's date in ISO form, as format_date gives it
    pages,      \* the names of the pages of the wiki
    text,       \* the text of each page of the wiki
    viewable,   \* the pages the user has WIKI_VIEW on
    canCreate,  \* whether the user has WIKI_CREATE on today's page
    resp,       \* what process_request answered
    nav         \* what MyPageNavMacro.expand_macro returned

vars ==
    <<prefix, authname, today, pages, text, viewable, canCreate, resp, nav>>

-----------------------------------------------------------------------------
(* Strings *)

\* The newline and printable ASCII characters, in increasing character
\* code, so that Code orders characters as Python does.
Chars ==
    <<
       "\n", " ", "!", "\"", "#", "$", "%", "&", "'", "(", ")", "*",
       "+", ",", "-", ".", "/", "0", "1", "2", "3", "4", "5", "6",
       "7", "8", "9", ":", ";", "<", "=", ">", "?", "@", "A", "B",
       "C", "D", "E", "F", "G", "H", "I", "J", "K", "L", "M", "N",
       "O", "P", "Q", "R", "S", "T", "U", "V", "W", "X", "Y", "Z",
       "[", "\\", "]", "^", "_", "a", "b", "c", "d", "e", "f",
       "g", "h", "i", "j", "k", "l", "m", "n", "o", "p", "q", "r",
       "s", "t", "u", "v", "w", "x", "y", "z", "{", "|", "}", "~" >>

CharSet == {Chars[i] : i \in 1..Len(Chars)}

Code == [c \in CharSet |-> CHOOSE i \in 1..Len(Chars) : Chars[i] = c]

Digits == {"0", "1", "2", "3", "4", "5", "6", "7", "8", "9"}

None == << >>
Some(v) == << v >>

Min(a, b) == IF a < b THEN a ELSE b
Max(a, b) == IF a > b THEN a ELSE b

\* Python's s < t on strings.
RECURSIVE StrLess(_, _)
StrLess(s, t) ==
    IF t = << >> THEN FALSE
    ELSE IF s = << >> THEN TRUE
    ELSE IF s[1] # t[1] THEN Code[s[1]] < Code[t[1]]
    ELSE StrLess(Tail(s), Tail(t))

\* s.startswith(p)
StartsWith(s, p) ==
    Len(p) <= Len(s) /\ SubSeq(s, 1, Len(p)) = p

\* sep.join(parts)
RECURSIVE Join(_, _)
Join(sep, parts) ==
    IF parts = << >> THEN << >>
    ELSE IF Len(parts) = 1 THEN parts[1]
    ELSE parts[1] \o sep \o Join(sep, Tail(parts))

\* sorted(S) for a collection of distinct strings
RECURSIVE Sorted(_)
Sorted(S) ==
    IF S = {} THEN << >>
    ELSE LET m == CHOOSE x \in S : \A y \in S \ {x} : StrLess(x, y)
         IN  << m >> \o Sorted(S \ {m})

\* bisect(a, x): the insertion point of x to the right of equal entries
RECURSIVE BisectLoop(_, _, _, _)
BisectLoop(a, x, lo, hi) ==
    IF lo < hi
    THEN LET mid == (lo + hi) \div 2
         IN  IF StrLess(x, a[mid + 1])
             THEN BisectLoop(a, x, lo, mid)
             ELSE BisectLoop(a, x, mid + 1, hi)
    ELSE lo

bisect(a, x) == BisectLoop(a, x, 0, Len(a))

-----------------------------------------------------------------------------
(* MyPageModule: public methods *)

get_mypage_base(pfx, name) ==
    (IF pfx # << >> THEN pfx \o << "/" >> ELSE << >>)
        \o (IF name # << >> THEN name \o << "/" >> ELSE << >>)

\* re.compile(".*/\d{4}-\d{2}-\d{2}").match(s): anchored at the start only
DateAt(s, p) ==
    /\ p + 10 <= Len(s)
    /\ s[p] = "/"
    /\ \A k \in 1..(p - 1) : s[k] # "\n"
    /\ \A k \in {1, 2, 3, 4, 6, 7, 9, 10} : s[p + k] \in Digits
    /\ s[p + 5] = "-"
    /\ s[p + 8] = "-"

compiled_match(s) == \E p \in 1..Len(s) : DateAt(s, p)

\* WikiSystem.get_pages(base): the names of the existing pages under base
get_pages(base) == {p \in pages : StartsWith(p, base)}

get_all_mypages(base) ==
    Sorted({date \in get_pages(base) : compiled_match(date)})

-----------------------------------------------------------------------------
(* MyPageNavMacro.expand_macro *)

Whitespace == {" ", "\n"}

\* s.strip()
RECURSIVE LStrip(_)
LStrip(s) ==
    IF s # << >> /\ s[1] \in Whitespace THEN LStrip(Tail(s)) ELSE s

RECURSIVE RStrip(_)
RStrip(s) ==
    IF s # << >> /\ s[Len(s)] \in Whitespace
    THEN RStrip(SubSeq(s, 1, Len(s) - 1))
    ELSE s

RECURSIVE DigitsValue(_, _)
DigitsValue(ds, acc) ==
    IF ds = << >> THEN acc
    ELSE DigitsValue(Tail(ds), 10 * acc + (Code[ds[1]] - Code["0"]))

\* int(s) on a string: None stands for ValueError
int(s) ==
    LET t      == RStrip(LStrip(s))
        signed == t # << >> /\ t[1] \in {"+", "-"}
        ds     == IF signed THEN Tail(t) ELSE t
    IN  IF ds = << >> \/ \E k \in 1..Len(ds) : ds[k] \notin Digits
        THEN None
        ELSE IF signed /\ t[1] = "-"
             THEN Some(0 - DigitsValue(ds, 0))
             ELSE Some(DigitsValue(ds, 0))

\* splitting at the last comma, as content.rsplit(',', 1) would
LastComma(c) ==
    CHOOSE k \in 1..Len(c) : c[k] = "," /\ \A j \in (k + 1)..Len(c) : c[j] # ","

\* content.split(',', 1) when ',' is in content: the place of the first comma
FirstComma(c) == CHOOSE k \in 1..Len(c) : c[k] = "," /\ \A j \in 1..(k - 1) : c[j] # ","

DefaultOffset == 1

\* the offset and the label of the argument (content is None or a string)
parse_content(content) ==
    IF content = None
    THEN [offset |-> DefaultOffset, label |-> None]
    ELSE LET c == content[1]
         IN  IF \E k \in 1..Len(c) : c[k] = ","
             THEN LET k == FirstComma(c)
                      n == int(SubSeq(c, 1, k - 1))
                  IN  [offset |-> IF n = None THEN 0 ELSE n[1],
                       label  |-> Some(SubSeq(c, k + 1, Len(c)))]
             ELSE IF c # << >> /\ c[1] \in {"+", "-"}
             THEN LET n == int(c)
                  IN  [offset |-> IF n = None THEN 0 ELSE n[1],
                       label  |-> None]
             ELSE [offset |-> DefaultOffset, label |-> Some(c)]

\* the reference page of the macro hosted by resource (realm, id)
reference_page(base, realm, id) ==
    IF realm = "wiki" /\ StartsWith(id, base)
    THEN id
    ELSE Join(<< "/" >>, << base, today >>)

\* the end test without its "- 1"
at_end_beyond(idx, n, offset) == idx >= n /\ offset > 0

\* "at the end": the successors are missing
at_end(idx, n, offset) == idx >= n - 1 /\ offset > 0

\* "at the beginning": the predecessors are missing
at_beginning(idx, offset) == idx < 1 /\ offset < 0

\* The index logic.  idx is Python's 0-based index, so Python's
\* all_mypages[i] is all_mypages[i + 1] here.  The result is "missing",
\* "found" with the selected page, or "IndexError".
findAdjacent(all_mypages, mypage, offset) ==
    LET n    == Len(all_mypages)
        idx0 == bisect(all_mypages, mypage)
        idx  == IF 0 <= idx0 - 1 /\ idx0 - 1 < n /\ all_mypages[idx0] = mypage
                THEN idx0 - 1
                ELSE idx0
    IN  IF at_end(idx, n, offset)
        THEN [kind |-> "missing", tooltip |-> <<"(", "a", "t", " ", "t", "h", "e", " ", "e", "n", "d", ")">>,
              idx |-> idx, selected |-> None]
        ELSE IF at_beginning(idx, offset)
        THEN [kind |-> "missing", tooltip |-> <<"(", "a", "t", " ", "t", "h", "e", " ", "b", "e", "g", "i", "n", "n", "i", "n", "g", ")">>,
              idx |-> idx, selected |-> None]
        ELSE LET i == Max(0, Min(idx + offset, n - 1))
             IN  IF i < n
                 THEN [kind |-> "found", tooltip |-> << >>,
                       idx |-> idx, selected |-> Some(all_mypages[i + 1])]
                 ELSE [kind |-> "IndexError", tooltip |-> << >>,
                       idx |-> idx, selected |-> None]

\* selected.split('/')[-1]
RECURSIVE LastSegment(_)
LastSegment(s) ==
    IF \E k \in 1..Len(s) : s[k] = "/"
    THEN LastSegment(Tail(s))
    ELSE s

\* parse_date succeeds on an ISO date and raises TracError on other text
IsIsoDate(s) == Len(s) = 10 /\ DateAt(<< "/" >> \o s, 1)

link_tooltip(selected) ==
    LET selected_day == LastSegment(selected)
    IN  IF IsIsoDate(selected_day)
        THEN <<"M", "y", "P", "a", "g", "e", " ", "f", "o", "r", " ">> \o selected_day
        ELSE <<"n", "o", "n", "-", "d", "a", "y", " ", "p", "a", "g", "e", " ", "'">> \o selected_day \o <<"'">>

NavIdle ==
    [content |-> None, realm |-> "", id |-> << >>, offset |-> 0,
     arg_label |-> None,
     all_mypages |-> << >>, mypage |-> << >>, hosted |-> FALSE, idx |-> 0,
     kind |-> "idle", label |-> None, title |-> None, href |-> None]

\* One rendering of the macro.  The macro keeps nothing between renderings
\* (it reads the wiki and returns an element), so a run of the model renders
\* it once, from any wiki and with any argument.
ExpandMacro(content, realm, id) ==
    LET args        == parse_content(content)
        base        == get_mypage_base(prefix, authname)
        all_mypages == get_all_mypages(base)
        mypage      == reference_page(base, realm, id)
        fa          == findAdjacent(all_mypages, mypage, args.offset)
        common      == [content |-> content, realm |-> realm, id |-> id,
                        offset |-> args.offset, arg_label |-> args.label,
                        all_mypages |-> all_mypages,
                        mypage |-> mypage,
                        hosted |-> (realm = "wiki" /\ StartsWith(id, base)),
                        idx |-> fa.idx]
    IN  /\ nav.kind = "idle"
        /\ nav' =
            IF fa.kind = "missing"
            THEN IF args.label = None \/ args.label = Some(<< >>)
                 THEN common @@ [kind |-> "missing", label |-> Some(fa.tooltip),
                                 title |-> None, href |-> None]
                 ELSE common @@ [kind |-> "missing", label |-> args.label,
                                 title |-> Some(fa.tooltip), href |-> None]
            ELSE IF fa.kind = "found"
            THEN common @@ [kind |-> "link",
                            label |-> IF args.label # None THEN args.label
                                      ELSE fa.selected,
                            title |-> Some(link_tooltip(fa.selected[1])),
                            href |-> fa.selected]
            ELSE common @@ [kind |-> "IndexError", label |-> None,
                            title |-> None, href |-> None]
        /\ UNCHANGED <<prefix, authname, today, pages, text, viewable,
                       canCreate, resp>>

-----------------------------------------------------------------------------
(* The wiki of the model *)

MaxPages == 3

User == <<"a", "l">>

Prefixes == {<< >>, <<"j">>}

Day1 == <<"2", "0", "2", "4", "-", "0", "1", "-", "0", "1">>
Day2 == <<"2", "0", "2", "4", "-", "0", "1", "-", "0", "2">>
Day3 == <<"2", "0", "2", "4", "-", "0", "1", "-", "0", "3">>
Day4 == <<"2", "0", "2", "4", "-", "0", "1", "-", "0", "4">>
Day5 == <<"2", "0", "2", "4", "-", "0", "1", "-", "0", "5">>

\* the dates "today" ranges over
Todays == {Day3, Day4}

\* the names a page under the user's base can have: day pages, a sub-page of
\* a day page, a day page one level down, and a page that is not a day page
JournalNames(base) ==
    {base \o Day1, base \o Day3, base \o Day5,
     base \o Day1 \o <<"/", "n">>, base \o <<"x", "/">> \o Day2, base \o <<"n", "o", "t", "e", "s">>}

OtherNames == {<<"b", "o", "/">> \o Day1, <<"W", "i", "k", "i", "S", "t", "a", "r", "t">>}

Stores(base) ==
    {S \in SUBSET (JournalNames(base) \cup OtherNames) : Cardinality(S) <= MaxPages}

NoVals ==
    [date |-> << >>, isodate |-> << >>, user |-> << >>, author |-> << >>,
     lp_link |-> << >>, lp_name |-> << >>, lp_text |-> << >>,
     lp_quoted |-> << >>]

RespIdle ==
    [kind |-> "idle", target |-> << >>, action |-> "", text |-> None,
     template |-> None, reads |-> {}, listed |-> FALSE, last |-> None,
     vals |-> NoVals]

-----------------------------------------------------------------------------
(* The navigation macro on its own *)

Contents ==
    {None, Some(<< >>), Some(<<"+", "1">>), Some(<<"-", "1">>), Some(<<"+", "0">>), Some(<<"-", "2">>),
     Some(<<"+", "5">>), Some(<<"x">>), Some(<<",", "x">>), Some(<<"+", "a">>), Some(<<"-", "5", ",", "a", ",", "b">>),
     Some(<<" ", "2", " ", ",", "x">>), Some(<<"0", ",">>), Some(<<"7">>)}

HostIds(base) ==
    JournalNames(base) \cup OtherNames \cup {base \o Day2, base \o Day4}

NavInit ==
    /\ prefix \in Prefixes
    /\ authname = User
    /\ today \in Todays
    /\ pages \in Stores(get_mypage_base(prefix, authname))
    /\ text = [n \in pages |-> << >>]
    /\ viewable = pages
    /\ canCreate = TRUE
    /\ resp = RespIdle
    /\ nav = NavIdle

NavNext ==
    \E content \in Contents :
        \/ \E id \in HostIds(get_mypage_base(prefix, authname)) :
               ExpandMacro(content, "wiki", id)
        \/ ExpandMacro(content, "ticket", <<"1">>)

SpecNav == NavInit /\ [][NavNext]_vars

-----------------------------------------------------------------------------
(* Properties of the navigation macro *)

NavDone == nav.kind # "idle"

NavBase == get_mypage_base(prefix, authname)

InList(list, name) == \E k \in 1..Len(list) : list[k] = name

PosIn(list, name) == CHOOSE k \in 1..Len(list) : list[k] = name

IsSortedList(list) ==
    \A k \in 1..(Len(list) - 1) : StrLess(list[k], list[k + 1])

NoneGreater(list, name) == \A k \in 1..Len(list) : ~ StrLess(name, list[k])

NoneSmaller(list, name) == \A k \in 1..Len(list) : ~ StrLess(list[k], name)

\* C2: with a nonzero offset the macro answers "missing" exactly when the
\* offset is positive and no page of the list is strictly greater than the
\* reference, or the offset is negative and no page is strictly smaller.
C2_MissingExactlyAtTheEnds ==
    (NavDone /\ nav.offset # 0) =>
        ((nav.kind = "missing") <=>
            \/ nav.offset > 0 /\ NoneGreater(nav.all_mypages, nav.mypage)
            \/ nav.offset < 0 /\ NoneSmaller(nav.all_mypages, nav.mypage))

\* C3 as stated: for a reference at position i of the list, the macro links
\* to the page at position i+offset when that position is in the list and
\* answers "missing" when it is not.
C3_ExactOrMissing ==
    (NavDone /\ InList(nav.all_mypages, nav.mypage)) =>
        LET i == PosIn(nav.all_mypages, nav.mypage)
            j == i + nav.offset
        IN  IF 1 <= j /\ j <= Len(nav.all_mypages)
            THEN nav.kind = "link" /\ nav.href = Some(nav.all_mypages[j])
            ELSE nav.kind = "missing"

\* C3 amended: for a reference at position i of the list, the macro links to
\* the page at position i+offset when that position is in the list; when it
\* is not, the macro answers "missing" only if the reference is already the
\* last page (offset > 0) or the first page (offset < 0), and otherwise links
\* to the last page (offset > 0) or the first page (offset < 0).
C3_ExactOrClamped ==
    (NavDone /\ InList(nav.all_mypages, nav.mypage)) =>
        LET n == Len(nav.all_mypages)
            i == PosIn(nav.all_mypages, nav.mypage)
            j == i + nav.offset
        IN  IF 1 <= j /\ j <= n
            THEN nav.kind = "link" /\ nav.href = Some(nav.all_mypages[j])
            ELSE IF j > n
            THEN IF i = n THEN nav.kind = "missing"
                 ELSE nav.kind = "link" /\ nav.href = Some(nav.all_mypages[n])
            ELSE IF i = 1 THEN nav.kind = "missing"
                 ELSE nav.kind = "link" /\ nav.href = Some(nav.all_mypages[1])

\* a rendering on a listed page that is not at an end of the list, with an
\* offset that leads beyond the end
C3_Witness ==
    /\ NavDone
    /\ InList(nav.all_mypages, nav.mypage)
    /\ Len(nav.all_mypages) >= 3
    /\ PosIn(nav.all_mypages, nav.mypage) = 2
    /\ nav.offset > 1
    /\ nav.kind = "link"

\* today's page name as process_request computes it
TodayPageName == NavBase \o today

\* C4: on a page that is not a wiki page under the user's base the reference
\* is today's page name, base immediately followed by today's ISO date; on a
\* wiki page under the base the reference is that page's name.
C4_ReferenceIsTodayOrHost ==
    NavDone =>
        IF nav.realm = "wiki" /\ StartsWith(nav.id, NavBase)
        THEN nav.mypage = nav.id
        ELSE nav.mypage = TodayPageName

\* C10: the macro returns the "missing" placeholder or a link to a page of
\* the list, and never fails.
C10_PlaceholderOrLink ==
    NavDone =>
        \/ nav.kind = "missing"
        \/ /\ nav.kind = "link"
           /\ nav.href # None
           /\ InList(nav.all_mypages, nav.href[1])

\* a name that is base followed by dddd-dd-dd and nothing else
IsDayPage(base, name) ==
    /\ StartsWith(name, base)
    /\ Len(name) = Len(base) + 10
    /\ IsIsoDate(SubSeq(name, Len(base) + 1, Len(name)))

\* C8: the list of journal pages is, in ascending order, exactly the
\* existing pages named base followed by dddd-dd-dd and nothing else.
C8_ExactlyTheDayPages ==
    NavDone =>
        /\ IsSortedList(nav.all_mypages)
        /\ {nav.all_mypages[k] : k \in 1..Len(nav.all_mypages)}
               = {p \in pages : IsDayPage(NavBase, p)}

\* C9: the offset is +1 when no offset part is given (no argument, or a
\* label only); with a comma the numeric part is the text before the first
\* comma and the label the text after it; a lone argument with a leading
\* sign is the numeric part; the offset is the integer the numeric part
\* denotes, or 0 when it denotes none.
IntOrZero(s) == IF int(s) = None THEN 0 ELSE int(s)[1]

-----------------------------------------------------------------------------
(* MyPageModule.process_request *)

\* whether sub occurs in s at position i
OccursAt(s, sub, i) ==
    i + Len(sub) - 1 <= Len(s) /\ SubSeq(s, i, i + Len(sub) - 1) = sub

\* s.find(sub), from 1; 0 when sub does not occur
Find(s, sub) ==
    IF \E i \in 1..Len(s) : OccursAt(s, sub, i)
    THEN CHOOSE i \in 1..Len(s) :
            OccursAt(s, sub, i) /\ \A j \in 1..(i - 1) : ~ OccursAt(s, sub, j)
    ELSE 0

\* s.replace(old, new) for a nonempty old: the occurrences of old from left
\* to right, none overlapping another
RECURSIVE Replace(_, _, _)
Replace(s, old, new) ==
    LET i == Find(s, old)
    IN  IF i = 0 THEN s
        ELSE SubSeq(s, 1, i - 1) \o new
                \o Replace(SubSeq(s, i + Len(old), Len(s)), old, new)

\* s.splitlines(): a final line break opens no further line
RECURSIVE SplitLines(_)
SplitLines(s) ==
    LET i == Find(s, << "\n" >>)
    IN  IF s = << >> THEN << >>
        ELSE IF i = 0 THEN << s >>
        ELSE << SubSeq(s, 1, i - 1) >> \o SplitLines(SubSeq(s, i + 1, Len(s)))

\* '\n'.join(['> ' + line for line in text.splitlines()])
Quoted(text_) ==
    LET lines == SplitLines(text_)
    IN  Join(<< "\n" >>, [k \in 1..Len(lines) |-> <<">", " ">> \o lines[k]])

tokens ==
    [date      |-> <<"$", "M", "Y", "P", "A", "G", "E", "_", "D", "A", "T", "E">>,
     isodate   |-> <<"$", "M", "Y", "P", "A", "G", "E", "_", "I", "S", "O", "D", "A", "T", "E">>,
     user      |-> <<"$", "M", "Y", "P", "A", "G", "E", "_", "U", "S", "E", "R">>,
     author    |-> <<"$", "M", "Y", "P", "A", "G", "E", "_", "A", "U", "T", "H", "O", "R">>,
     lp_link   |-> <<"$", "M", "Y", "P", "A", "G", "E", "_", "L", "A", "S", "T", "_", "P", "A", "G", "E", "_", "L", "I", "N", "K">>,
     lp_name   |-> <<"$", "M", "Y", "P", "A", "G", "E", "_", "L", "A", "S", "T", "_", "P", "A", "G", "E", "_", "N", "A", "M", "E">>,
     lp_text   |-> <<"$", "M", "Y", "P", "A", "G", "E", "_", "L", "A", "S", "T", "_", "P", "A", "G", "E", "_", "T", "E", "X", "T">>,
     lp_quoted |-> <<"$", "M", "Y", "P", "A", "G", "E", "_", "L", "A", "S", "T", "_", "P", "A", "G", "E", "_", "Q", "U", "O", "T", "E", "D">>]

TokenOrder ==
    << "date", "isodate", "user", "author",
       "lp_link", "lp_name", "lp_text", "lp_quoted" >>

\* template_text.replace(...).replace(...): one replace after the other, each
\* on the result of the one before
RECURSIVE ReplaceFrom(_, _, _)
ReplaceFrom(s, vals, k) ==
    IF k > Len(TokenOrder) THEN s
    ELSE ReplaceFrom(Replace(s, tokens[TokenOrder[k]], vals[TokenOrder[k]]),
                     vals, k + 1)

expand_template(template_text, vals) == ReplaceFrom(template_text, vals, 1)

\* the text of any existing page, viewable or not
get_page_text_unguarded(pagename) ==
    IF pagename \in pages THEN Some(text[pagename]) ELSE None

\* get_page_text(pagename): None unless the page exists and may be viewed
get_page_text(pagename) ==
    IF pagename \in pages /\ pagename \in viewable
    THEN Some(text[pagename])
    ELSE None

template_name == <<"P", "a", "g", "e", "T", "e", "m", "p", "l", "a", "t", "e", "s", "/", "M", "y", "P", "a", "g", "e">>

mytemplate_name == Join(<< "/" >>, << template_name, authname >>)

\* the last page of the list, whatever its date
last_page_name_latest(all_mypages, today_page_name) ==
    IF all_mypages # << >> THEN Some(all_mypages[Len(all_mypages)]) ELSE None

\* the page of the list just before today's page, if any
last_page_name(all_mypages, today_page_name) ==
    LET last == bisect(all_mypages, today_page_name) - 1
    IN  IF last >= 0 THEN Some(all_mypages[last + 1]) ELSE None

\* the permission looked at before the existence of today's page
early_exit_permission_first(exists, create) ==
    IF ~ create THEN "ResourceNotFound"
    ELSE IF exists THEN "redirect"
    ELSE "continue"

\* what the handler does before it looks for a template
early_exit(exists, create) ==
    IF exists THEN "redirect"
    ELSE IF ~ create THEN "ResourceNotFound"
    ELSE "continue"

\* user_time(req, format_date, now): the date in the user's format, here
\* month/day/year
user_format_date(iso) ==
    SubSeq(iso, 6, 7) \o << "/" >> \o SubSeq(iso, 9, 10) \o << "/" >>
        \o SubSeq(iso, 3, 4)

\* get_reporter_id(req) for an authenticated user
get_reporter_id == authname

\* One request for /mypage.  The handler keeps nothing between requests, so
\* a run of the model handles one request, in any wiki.
ProcessRequest ==
    LET base            == get_mypage_base(prefix, authname)
        today_page_name == base \o today
        exit            == early_exit(today_page_name \in pages, canCreate)
        mytemplate      == get_page_text(mytemplate_name)
        template_text   == IF mytemplate = None
                           THEN get_page_text(template_name)
                           ELSE mytemplate
        template_reads  == IF mytemplate = None
                           THEN {mytemplate_name, template_name}
                           ELSE {mytemplate_name}
        all_mypages     == get_all_mypages(base)
        last            == last_page_name(all_mypages, today_page_name)
        last_page_text  == IF last = None THEN None ELSE get_page_text(last[1])
        vals            ==
            [date      |-> user_format_date(today),
             isodate   |-> today,
             user      |-> authname,
             author    |-> get_reporter_id,
             lp_link   |-> IF last = None THEN << >>
                           ELSE <<"[", "[">> \o last[1] \o <<"]", "]">>,
             lp_name   |-> IF last = None THEN << >> ELSE last[1],
             lp_text   |-> IF last_page_text = None THEN << >>
                           ELSE last_page_text[1],
             lp_quoted |-> IF last_page_text = None THEN << >>
                           ELSE Quoted(last_page_text[1])]
    IN  /\ resp.kind = "idle"
        /\ resp' =
            IF exit = "redirect"
            THEN [kind |-> "redirect", target |-> today_page_name,
                  action |-> "edit", text |-> None, template |-> None,
                  reads |-> {}, listed |-> FALSE, last |-> None,
                  vals |-> NoVals]
            ELSE IF exit = "ResourceNotFound"
            THEN [kind |-> "ResourceNotFound", target |-> << >>,
                  action |-> "", text |-> None, template |-> None,
                  reads |-> {}, listed |-> FALSE, last |-> None,
                  vals |-> NoVals]
            ELSE IF template_text = None
            THEN [kind |-> "redirect", target |-> today_page_name,
                  action |-> "edit", text |-> None, template |-> None,
                  reads |-> template_reads, listed |-> FALSE, last |-> None,
                  vals |-> NoVals]
            ELSE [kind |-> "redirect", target |-> today_page_name,
                  action |-> "edit",
                  text |-> Some(expand_template(template_text[1], vals)),
                  template |-> template_text,
                  reads |-> template_reads \cup
                            (IF last = None THEN {} ELSE {last[1]}),
                  listed |-> TRUE, last |-> last, vals |-> vals]
        /\ UNCHANGED <<prefix, authname, today, pages, text, viewable,
                       canCreate, nav>>

-----------------------------------------------------------------------------
(* The entry point on its own *)

\* the text of the pages of the model: two templates, a first journal page
\* that mentions a token, and two lines of text on every other page
UserTemplateText ==
    <<"U", " ", "$", "M", "Y", "P", "A", "G", "E", "_", "L", "A", "S", "T", "_", "P", "A", "G", "E", "_", "L", "I", "N", "K", "|", "$", "M", "Y", "P", "A", "G", "E", "_", "L", "A", "S", "T", "_", "P", "A", "G", "E", "_", "N", "A", "M", "E", "|", "$", "M", "Y", "P", "A", "G", "E", "_", "L", "A", "S", "T", "_", "P", "A", "G", "E", "_", "T", "E", "X", "T", "|", "$", "M", "Y", "P", "A", "G", "E", "_", "L", "A", "S", "T", "_", "P", "A", "G", "E", "_", "Q", "U", "O", "T", "E", "D">>

SharedTemplateText == <<"S", " ", "$", "M", "Y", "P", "A", "G", "E", "_", "U", "S", "E", "R", " ", "$", "M", "Y", "P", "A", "G", "E", "_", "I", "S", "O", "D", "A", "T", "E", " ", "$", "M", "Y", "P", "A", "G", "E", "_", "D", "A", "T", "E", " ", "$", "M", "Y", "P", "A", "G", "E", "_", "A", "U", "T", "H", "O", "R">>

TextOf(name) ==
    IF name = template_name THEN SharedTemplateText
    ELSE IF StartsWith(name, template_name) THEN UserTemplateText
    ELSE IF name = get_mypage_base(prefix, authname) \o Day1
    THEN <<"s", "e", "e", " ", "$", "M", "Y", "P", "A", "G", "E", "_", "L", "A", "S", "T", "_", "P", "A", "G", "E", "_", "Q", "U", "O", "T", "E", "D", "\n", "b">>
    ELSE << "t", name[Len(name)], "\n", "b", name[Len(name) - 1] >>

TemplateNames == {template_name, template_name \o <<"/">> \o User}

ReqStores(base) ==
    {S \in SUBSET (JournalNames(base) \cup OtherNames \cup TemplateNames) :
        Cardinality(S) <= MaxPages}

ReqInit ==
    /\ prefix \in Prefixes
    /\ authname = User
    /\ today \in Todays
    /\ pages \in ReqStores(get_mypage_base(prefix, authname))
    /\ text = [n \in pages |-> TextOf(n)]
    /\ viewable \in SUBSET pages
    /\ canCreate \in BOOLEAN
    /\ resp = RespIdle
    /\ nav = NavIdle

ReqNext == ProcessRequest

SpecReq == ReqInit /\ [][ReqNext]_vars

-----------------------------------------------------------------------------
(* Properties of the entry point *)

RespDone == resp.kind # "idle"

TodayExists == TodayPageName \in pages

\* C1: when today's page exists the handler redirects to its edit view
\* without text, whether or not the user may create pages; when it does not
\* exist and the user may not create it, the handler fails with the
\* not-found error, having read no template or journal page, and redirects
\* nowhere.
C1_ExistenceBeforePermission ==
    RespDone =>
        /\ TodayExists =>
              /\ resp.kind = "redirect"
              /\ resp.target = TodayPageName
              /\ resp.action = "edit"
              /\ resp.text = None
        /\ (~ TodayExists /\ ~ canCreate) =>
              /\ resp.kind = "ResourceNotFound"
              /\ resp.reads = {}
              /\ ~ resp.listed

\* today's page exists and the user may not create pages
C1_Witness ==
    RespDone /\ TodayExists /\ ~ canCreate /\ resp.kind = "redirect"

Readable(name) == name \in pages /\ name \in viewable

UserTemplateName == template_name \o << "/" >> \o authname

\* C6: when today's page does not exist and the user may create it, the
\* template is the text of PageTemplates/MyPage/<user> if that page exists
\* and may be viewed, else the text of PageTemplates/MyPage if that page
\* exists and may be viewed, else there is none and the handler redirects to
\* the edit view of today's page without text.
C6_TemplateChoice ==
    (RespDone /\ ~ TodayExists /\ canCreate) =>
        /\ resp.kind = "redirect"
        /\ resp.target = TodayPageName
        /\ resp.action = "edit"
        /\ IF Readable(UserTemplateName)
           THEN resp.template = Some(text[UserTemplateName])
           ELSE IF Readable(template_name)
           THEN resp.template = Some(text[template_name])
           ELSE resp.template = None /\ resp.text = None

\* the user's own template exists but may not be viewed, and the shared one
\* was expanded
C6_Witness ==
    /\ RespDone
    /\ UserTemplateName \in pages
    /\ UserTemplateName \notin viewable
    /\ resp.template = Some(SharedTemplateText)
    /\ resp.text # None

\* the pages of a list that are strictly before a name
Before(list, name) ==
    {list[k] : k \in {j \in 1..Len(list) : StrLess(list[j], name)}}

Greatest(S) == CHOOSE x \in S : \A y \in S \ {x} : StrLess(y, x)

\* C7: when a template is expanded, the page that supplies the link, name,
\* text and quoted text is the greatest name of the list of journal pages
\* that is strictly less than today's page name; when there is none the four
\* values are empty.
C7_MostRecentPage ==
    (RespDone /\ resp.template # None) =>
        LET prior == Before(get_all_mypages(NavBase), TodayPageName)
        IN  IF prior = {}
            THEN /\ resp.last = None
                 /\ resp.vals.lp_link = << >>
                 /\ resp.vals.lp_name = << >>
                 /\ resp.vals.lp_text = << >>
                 /\ resp.vals.lp_quoted = << >>
            ELSE LET p == Greatest(prior)
                 IN  /\ resp.last = Some(p)
                     /\ resp.vals.lp_name = p
                     /\ resp.vals.lp_link = <<"[", "[">> \o p \o <<"]", "]">>
                     /\ resp.vals.lp_text =
                            IF p \in viewable THEN text[p] ELSE << >>
                     /\ resp.vals.lp_quoted =
                            IF p \in viewable THEN Quoted(text[p]) ELSE << >>

\* a template was expanded in a wiki with a journal page before today and
\* one after today
C7_Witness ==
    /\ RespDone
    /\ resp.template # None
    /\ resp.last = Some(NavBase \o Day1)
    /\ NavBase \o Day5 \in pages
    /\ resp.vals.lp_text # << >>

\* the first place of s where a token stands, as <<position, token name>>
FirstToken(s) ==
    LET at(i) == {k \in DOMAIN tokens : OccursAt(s, tokens[k], i)}
    IN  IF \E i \in 1..Len(s) : at(i) # {}
        THEN LET i == CHOOSE i \in 1..Len(s) :
                        at(i) # {} /\ \A j \in 1..(i - 1) : at(j) = {}
             IN  << i, CHOOSE k \in at(i) : TRUE >>
        ELSE << 0, "" >>

\* every token of the text replaced by its value, at once
RECURSIVE Substituted(_, _)
Substituted(s, vals) ==
    LET f == FirstToken(s)
    IN  IF f[1] = 0 THEN s
        ELSE SubSeq(s, 1, f[1] - 1) \o vals[f[2]]
                \o Substituted(SubSeq(s, f[1] + Len(tokens[f[2]]), Len(s)), vals)

\* C5: the text the handler pre-fills is the template with every token
\* replaced by its value and every other character unchanged, whatever the
\* values contain.
C5_SimultaneousSubstitution ==
    (RespDone /\ resp.template # None) =>
        resp.text = Some(Substituted(resp.template[1], resp.vals))

====
